---- MODULE Spec2Model ----
(***************************************************************************)
(* Verification model of the schema-to-type generator of openai-sdk-codegen *)
(* (src/openai-sdk-codegen/src/lib.rs) and of the transport of openai-sdk   *)
(* (StandardHttpTransport::send, ParsedEventStream::poll_next).             *)
(*                                                                          *)
(* Strings are sequences of one-character strings, so that the string       *)
(* operations of the generator (split, rsplit_once, replace, case           *)
(* conversion, identifier validation) are computed character by character.  *)
(* An Option<T> is a sequence of length 0 (None) or 1 (Some).               *)
(* Local values of the source (`let`) are parameters of helper operators.   *)
(***************************************************************************)
EXTENDS Integers, Sequences, FiniteSets, TLC

VARIABLES
    input,      \* the macro invocation: literal kind, environment, file, parsed document
    pc,         \* position of try_generate: "start", "loop", "done"
    idx,        \* number of entries of components.schemas already visited
    outputs,    \* try_generate's `outputs` vector (definitions accumulated so far)
    nullable,   \* try_generate's `nullable` HashSet
    result,     \* what generate hands back to the compiler
    previous,   \* the result of the preceding invocation on the same document, if any
    fnName,     \* naming specification: the function last applied
    fnIn,       \* naming specification: its argument
    fnOut,      \* naming specification: its return value
    exchange,   \* transport: what the network does with the request of one send
    tpc,        \* transport: position of send: "idle", "start", "sent", "done"
    outcome,    \* transport: what send returned
    inner,      \* stream: the items the inner event stream delivers, in order
    answer,     \* stream: what the inner stream answered to the last poll
    yielded,    \* stream: the items ParsedEventStream has yielded so far
    poll        \* stream: what the last poll_next returned

vars == <<input, pc, idx, outputs, nullable, result, previous, fnName, fnIn, fnOut,
          exchange, tpc, outcome, inner, answer, yielded, poll>>
passVars == <<input, pc, idx, outputs, nullable, result, previous>>
fnVars == <<fnName, fnIn, fnOut>>
sendVars == <<exchange, tpc, outcome>>
streamVars == <<inner, answer, yielded, poll>>
sdkVars == <<sendVars, streamVars>>

(***************************************************************************)
(* Characters and strings                                                   *)
(***************************************************************************)
LowerSeq == <<"a","b","c","d","e","f","g","h","i","j","k","l","m",
              "n","o","p","q","r","s","t","u","v","w","x","y","z">>
UpperSeq == <<"A","B","C","D","E","F","G","H","I","J","K","L","M",
              "N","O","P","Q","R","S","T","U","V","W","X","Y","Z">>
DigitSeq == <<"0","1","2","3","4","5","6","7","8","9">>

Range(f) == { f[i] : i \in DOMAIN f }

Lowers == Range(LowerSeq)
Uppers == Range(UpperSeq)
Digits == Range(DigitSeq)

IndexIn(seq, c) == CHOOSE i \in DOMAIN seq : seq[i] = c
ToUpper(c) == IF c \in Lowers THEN UpperSeq[IndexIn(LowerSeq, c)] ELSE c
ToLower(c) == IF c \in Uppers THEN LowerSeq[IndexIn(UpperSeq, c)] ELSE c

None == <<>>
Some(x) == <<x>>
IsSome(o) == Len(o) = 1
Unwrap(o) == o[1]

RECURSIVE Concat(_)
Concat(parts) ==
    IF parts = <<>> THEN <<>> ELSE Head(parts) \o Concat(Tail(parts))

\* [T]::join(sep)
RECURSIVE Join(_, _)
Join(parts, sep) ==
    IF Len(parts) <= 1 THEN Concat(parts)
    ELSE parts[1] \o sep \o Join(Tail(parts), sep)

FirstIndex(s, sep) == CHOOSE i \in DOMAIN s : s[i] = sep /\ \A j \in 1..(i-1) : s[j] # sep
LastIndex(s, sep) == CHOOSE i \in DOMAIN s : s[i] = sep /\ \A j \in (i+1)..Len(s) : s[j] # sep
Before(s, k) == SubSeq(s, 1, k - 1)
After(s, k) == SubSeq(s, k + 1, Len(s))
ContainsChar(s, sep) == \E i \in DOMAIN s : s[i] = sep

\* str::split(char): "a..b" gives <<"a", "", "b">>, "" gives <<"">>
RECURSIVE SplitAcc(_, _, _)
SplitAcc(s, sep, acc) ==
    IF ~ContainsChar(s, sep) THEN Append(acc, s)
    ELSE SplitAcc(After(s, FirstIndex(s, sep)), sep, Append(acc, Before(s, FirstIndex(s, sep))))

Split(s, sep) == SplitAcc(s, sep, <<>>)

\* str::replace(char, "c")
Replace(s, from, to) == [i \in DOMAIN s |-> IF s[i] = from THEN to ELSE s[i]]

\* str::rsplit_once(char): the text before and after the LAST occurrence
rsplit_once(s, sep) ==
    IF ~ContainsChar(s, sep) THEN None
    ELSE Some(<<Before(s, LastIndex(s, sep)), After(s, LastIndex(s, sep))>>)

\* str::contains
Contains(s, sub) ==
    \E i \in 0..(Len(s) - Len(sub)) : SubSeq(s, i + 1, i + Len(sub)) = sub

(***************************************************************************)
(* convert_case: word splitting on the default boundaries, then the case's  *)
(* pattern and delimiter (ccase!(pascal, ..), ccase!(snake, ..)).           *)
(***************************************************************************)
IsDelim(c) == c \in {"_", "-", " "}

CharClass(c) ==
    IF c \in Lowers THEN "lower"
    ELSE IF c \in Uppers THEN "upper"
    ELSE IF c \in Digits THEN "digit" ELSE "other"

\* the boundaries of zero width: LOWER_UPPER, ACRONYM, LOWER_DIGIT, UPPER_DIGIT,
\* DIGIT_LOWER, DIGIT_UPPER, on the classes a, b, c of three successive characters
IsBoundary(a, b, c) ==
    \/ a = "lower" /\ b = "upper"
    \/ a = "upper" /\ b = "upper" /\ c = "lower"
    \/ a \in {"lower", "upper"} /\ b = "digit"
    \/ a = "digit" /\ b \in {"lower", "upper"}

ClassAt(s, i) == IF i <= Len(s) THEN CharClass(s[i]) ELSE "none"

\* a boundary lies between s[i] and s[i+1]
CutAfter(s, i) == IsBoundary(ClassAt(s, i), ClassAt(s, i + 1), ClassAt(s, i + 2))

Flush(acc, cur) == IF cur = <<>> THEN acc ELSE Append(acc, cur)

\* the words after reading the character c: delim ends a word and is dropped,
\* cut ends a word after c
WordStep(st, c, delim, cut) ==
    IF delim THEN [cur |-> <<>>, acc |-> Flush(st.acc, st.cur)]
    ELSE IF cut THEN [cur |-> <<>>, acc |-> Append(st.acc, Append(st.cur, c))]
    ELSE [cur |-> Append(st.cur, c), acc |-> st.acc]

RECURSIVE WordsFrom(_, _, _)
WordsFrom(s, i, st) ==
    IF i > Len(s) THEN Flush(st.acc, st.cur)
    ELSE WordsFrom(s, i + 1, WordStep(st, s[i], IsDelim(s[i]), CutAfter(s, i)))

Words(s) == WordsFrom(s, 1, [cur |-> <<>>, acc |-> <<>>])

Capitalize(w) == [i \in DOMAIN w |-> IF i = 1 THEN ToUpper(w[i]) ELSE ToLower(w[i])]
Lowercase(w) == [i \in DOMAIN w |-> ToLower(w[i])]
CapitalizeAll(ws) == [i \in DOMAIN ws |-> Capitalize(ws[i])]
LowercaseAll(ws) == [i \in DOMAIN ws |-> Lowercase(ws[i])]

Pascal(s) == Concat(CapitalizeAll(Words(s)))
Snake(s) == Join(LowercaseAll(Words(s)), <<"_">>)

(***************************************************************************)
(* Identifiers and types of the target language                            *)
(***************************************************************************)
Keywords == { <<"t","y","p","e">> }
IdentStart == Lowers \cup Uppers \cup {"_"}
IdentChars == IdentStart \cup Digits

\* proc_macro2::Ident::new (under format_ident!) panics unless this holds
IsIdent(s) == s # <<>> /\ s[1] \in IdentStart /\ \A i \in DOMAIN s : s[i] \in IdentChars

\* format_ident!("{}", v)
MakeIdent(v) == [panic |-> ~IsIdent(v), ident |-> v]

\* syn::parse_str::<syn::Ident>: a valid identifier that is no keyword and not `_`
ParsesAsIdent(s) == IsIdent(s) /\ s \notin Keywords /\ s # <<"_">>

\* syn::parse_str::<syn::Type> of a bare name: a path of one segment, or `_`
ParsesAsType(s) == IsIdent(s) /\ s \notin Keywords

(***************************************************************************)
(* Naming engine and reference resolver                                     *)
(***************************************************************************)
format_struct_name(value) == Replace(value, "-", "_")

PascalAll(subs) == [j \in DOMAIN subs |-> Pascal(subs[j])]
\* the inner closure of format_variant_name: one `.`-segment
VariantPart(part) == Join(PascalAll(Split(part, "-")), <<"_">>)
VariantParts(segs) == [i \in DOMAIN segs |-> VariantPart(segs[i])]
DigitPrefixed(value) ==
    IF value # <<>> /\ value[1] \in Digits THEN <<"_">> \o value ELSE value

\* the segments joined without the `_` between them (the fully-camel form)
format_variant_name_camel(value) ==
    MakeIdent(DigitPrefixed(Concat(VariantParts(Split(value, ".")))))

format_variant_name(value) ==
    MakeIdent(DigitPrefixed(Join(VariantParts(Split(value, ".")), <<"_">>)))

\* format_ident!("r#{value}"): Ident::new_raw also refuses `_`
RawIdent(v) == [panic |-> ~IsIdent(v) \/ v = <<"_">>, ident |-> <<"r", "#">> \o v]
FieldIdent(v) == IF ParsesAsIdent(v) THEN [panic |-> FALSE, ident |-> v] ELSE RawIdent(v)

format_field_name(value) == FieldIdent(Replace(value, ".", "_"))

SchemasPrefix == <<"#","/","c","o","m","p","o","n","e","n","t","s",
                   "/","s","c","h","e","m","a","s">>

InvalidReference(value) == [kind |-> "InvalidReference", reference |-> value]
SynError == [kind |-> "Syn", reference |-> <<>>]
NoError == [kind |-> "none", reference |-> <<>>]

\* the prefix left unchecked: whatever follows the last `/` is taken as the name
MatchReference_any_prefix(value, sp) ==
    IF sp # None
    THEN [ok |-> TRUE, name |-> sp[1][2], err |-> NoError]
    ELSE [ok |-> FALSE, name |-> <<>>, err |-> InvalidReference(value)]

\* the match of parse_reference on the value of rsplit_once
MatchReference(value, sp) ==
    IF sp # None /\ sp[1][1] = SchemasPrefix
    THEN [ok |-> TRUE, name |-> sp[1][2], err |-> NoError]
    ELSE [ok |-> FALSE, name |-> <<>>, err |-> InvalidReference(value)]

\* split_once instead of rsplit_once: the text before the FIRST `/`
parse_reference_first_slash(value) ==
    MatchReference(value,
                   IF ContainsChar(value, "/")
                   THEN Some(<<Before(value, FirstIndex(value, "/")),
                               After(value, FirstIndex(value, "/"))>>)
                   ELSE None)

parse_reference(value) == MatchReference(value, rsplit_once(value, "/"))

(***************************************************************************)
(* Document values (openapiv3): ReferenceOr<Schema>, Schema, SchemaData     *)
(***************************************************************************)
Ref(r) == [isRef |-> TRUE, reference |-> r]
Item(s) == [isRef |-> FALSE, schema |-> s]

NoData == [title |-> None, description |-> None, nullable |-> FALSE]

StringSchema(data, enumeration) ==
    [kind |-> "string", data |-> data, enumeration |-> enumeration]
NumberSchema(data) == [kind |-> "number", data |-> data]
IntegerSchema(data, minimum) == [kind |-> "integer", data |-> data, minimum |-> minimum]
BooleanSchema(data) == [kind |-> "boolean", data |-> data]
ObjectSchema(data, properties, required) ==
    [kind |-> "object", data |-> data, properties |-> properties, required |-> required]
ArraySchema(data, items) == [kind |-> "array", data |-> data, items |-> items]
AnyOfSchema(data, any_of) == [kind |-> "anyOf", data |-> data, any_of |-> any_of]
AllOfSchema(data, all_of) == [kind |-> "allOf", data |-> data, all_of |-> all_of]
AnySchema(data, typ, any_of) == [kind |-> "any", data |-> data, typ |-> typ, any_of |-> any_of]
OneOfSchema(data) == [kind |-> "oneOf", data |-> data]

(***************************************************************************)
(* Emitted definitions (the token streams pushed to `outputs`)              *)
(***************************************************************************)
DocAttr(text) == [attr |-> "doc", value |-> text]
FlattenAttr == [attr |-> "serde_flatten", value |-> <<>>]
WithAttr(with) == [attr |-> "serde_with", value |-> with]

Variant(rename, ident, payload) == [rename |-> rename, ident |-> ident, payload |-> payload]
FieldDef(attrs, ident, type) == [attrs |-> attrs, ident |-> ident, type |-> type]
TypeOf(option, base) == [option |-> option, base |-> base]

AliasDef(doc, ident, vec, target) ==
    [kind |-> "alias", attrs |-> doc, ident |-> ident, vec |-> vec, target |-> target]
EnumDef(attrs, ident, variants) ==
    [kind |-> "enum", attrs |-> attrs, ident |-> ident, variants |-> variants]
StructDef(attrs, ident, fields) ==
    [kind |-> "struct", attrs |-> attrs, ident |-> ident, fields |-> fields]

TyBool == <<"b","o","o","l">>
TyString == <<"S","t","r","i","n","g">>
TyF64 == <<"f","6","4">>
TyU64 == <<"u","6","4">>
TyI64 == <<"i","6","4">>
TyDateTime == <<":",":","c","h","r","o","n","o",":",":","D","a","t","e","T","i","m","e",
                "<",":",":","c","h","r","o","n","o",":",":","U","t","c",">">>
TimestampSeconds == <<"s","e","r","d","e","_","w","i","t","h",":",":",
                      "T","i","m","e","s","t","a","m","p","S","e","c","o","n","d","s",
                      "<","i","6","4",">">>
Timestamp == <<"t","i","m","e","s","t","a","m","p">>
ItemSuffix == <<"I","t","e","m">>

(***************************************************************************)
(* Results of the expanders: Ok(()), Err(e) through `?`, or a panic of      *)
(* format_ident!.  The accumulators are `&mut`, so what was pushed or       *)
(* inserted before a failure stays in them.                                 *)
(***************************************************************************)
Res(status, outs, nul, err) ==
    [status |-> status, outputs |-> outs, nullable |-> nul, err |-> err]

OptDoc(text) == IF text = None THEN <<>> ELSE <<DocAttr(text[1])>>
build_schema_doc(schema) == OptDoc(schema.data.title) \o OptDoc(schema.data.description)

\* the Option test inverted: an any-typed schema with no declared type
is_null_object_untyped(schema) ==
    IF schema.kind = "any" THEN schema.typ = None ELSE FALSE

is_null_object(schema) ==
    IF schema.kind = "any" THEN schema.typ = Some(<<"n","u","l","l">>) ELSE FALSE

\* the filter_map of expand_string and of expand_any_of: the non-null entries
RECURSIVE NonNull(_)
NonNull(enumeration) ==
    IF enumeration = <<>> THEN <<>>
    ELSE Head(enumeration) \o NonNull(Tail(enumeration))

\* the rename attribute carrying the identifier instead of the constant
RenamedVariant_ident(x, id) ==
    [panic |-> id.panic, variant |-> Variant(Some(id.ident), id.ident, None)]

\* quote! { #[serde(rename = #x)] #ident }
RenamedVariant(x, id) == [panic |-> id.panic, variant |-> Variant(Some(x), id.ident, None)]
ConstVariant(x) == RenamedVariant(x, format_variant_name(x))

\* the variants of the constants in order; a panic of one of them ends the call
Collected(vs) ==
    [panic |-> \E i \in DOMAIN vs : vs[i].panic,
     variants |-> [i \in DOMAIN vs |-> vs[i].variant]]
ConstVariants(consts) == Collected([i \in DOMAIN consts |-> ConstVariant(consts[i])])

PushEnum(outs, nul, ident, doc, cv) ==
    IF cv.panic THEN Res("panic", outs, nul, NoError)
    ELSE Res("ok", Append(outs, EnumDef(doc, ident, cv.variants)), nul, NoError)

expand_string(outs, nul, ident, doc, string) ==
    PushEnum(outs, nul, ident, doc, ConstVariants(NonNull(string.enumeration)))

\* lines 211-223: the constants of an inline string branch, flattened
AnyOfEnumBranch(acc, doc, cv) ==
    IF cv.panic THEN [acc EXCEPT !.status = "panic", !.attrs = @ \o doc]
    ELSE [acc EXCEPT !.attrs = @ \o doc, !.variants = @ \o cv.variants]

\* lines 230-237: a reference branch, given the resolved and formatted name
AnyOfRefBranch(acc, pr, name) ==
    IF ~pr.ok THEN [acc EXCEPT !.status = "err", !.err = pr.err]
    ELSE IF ~IsIdent(name) THEN [acc EXCEPT !.status = "panic"]
    ELSE IF ~ParsesAsType(name) THEN [acc EXCEPT !.status = "err", !.err = SynError]
    ELSE [acc EXCEPT !.variants = Append(@, Variant(None, name, Some(name)))]

AnyOfRef(acc, pr) == AnyOfRefBranch(acc, pr, format_struct_name(pr.name))

\* one iteration of the loop of expand_any_of; acc holds attrs, variants, nullable
AnyOfStep(b, schema_name, acc) ==
    IF b.isRef THEN AnyOfRef(acc, parse_reference(b.reference))
    ELSE IF is_null_object(b.schema) THEN [acc EXCEPT !.nullable = @ \cup {schema_name}]
    ELSE IF b.schema.kind = "string" /\ b.schema.enumeration # <<>>
    THEN AnyOfEnumBranch(acc, build_schema_doc(b.schema),
                         ConstVariants(NonNull(b.schema.enumeration)))
    ELSE acc

RECURSIVE AnyOfLoop(_, _, _, _)
AnyOfLoop(any_of, i, schema_name, acc) ==
    IF i > Len(any_of) \/ acc.status # "ok" THEN acc
    ELSE AnyOfLoop(any_of, i + 1, schema_name, AnyOfStep(any_of[i], schema_name, acc))

\* lines 242-252, after the loop
AnyOfFinish(outs, l, ident) ==
    IF l.status # "ok" THEN Res(l.status, outs, l.nullable, l.err)
    ELSE IF ~IsIdent(ident) THEN Res("panic", outs, l.nullable, NoError)
    ELSE Res("ok", Append(outs, EnumDef(l.attrs, ident, l.variants)), l.nullable, NoError)

expand_any_of(outs, nul, schema_name, attrs, any_of) ==
    AnyOfFinish(outs,
                AnyOfLoop(any_of, 1, schema_name,
                          [status |-> "ok", attrs |-> attrs, variants |-> <<>>,
                           nullable |-> nul, err |-> NoError]),
                format_struct_name(schema_name))

\* lines 268-277: a reference branch, given the resolved name and the field name
AllOfRefBranch(acc, pr, name, field_name) ==
    IF ~pr.ok THEN [acc EXCEPT !.status = "err", !.err = pr.err]
    ELSE IF ~IsIdent(field_name) THEN [acc EXCEPT !.status = "panic"]
    ELSE IF ~ParsesAsType(name) THEN [acc EXCEPT !.status = "err", !.err = SynError]
    ELSE [acc EXCEPT !.fields = Append(@, FieldDef(<<FlattenAttr>>, field_name,
                                                   TypeOf(FALSE, name)))]

\* the field named by the type name as it is, without the snake-case conversion
AllOfNamed_verbatim(acc, pr, name) == AllOfRefBranch(acc, pr, name, name)

AllOfNamed(acc, pr, name) == AllOfRefBranch(acc, pr, name, Snake(name))
AllOfRef(acc, pr) == AllOfNamed(acc, pr, format_struct_name(pr.name))

\* one iteration of the loop of expand_all_of
AllOfStep(b, acc) == IF b.isRef THEN AllOfRef(acc, parse_reference(b.reference)) ELSE acc

RECURSIVE AllOfLoop(_, _, _)
AllOfLoop(all_of, i, acc) ==
    IF i > Len(all_of) \/ acc.status # "ok" THEN acc
    ELSE AllOfLoop(all_of, i + 1, AllOfStep(all_of[i], acc))

AllOfFinish(outs, nul, ident, l) ==
    IF l.status # "ok" THEN Res(l.status, outs, nul, l.err)
    ELSE Res("ok", Append(outs, StructDef(<<>>, ident, l.fields)), nul, NoError)

expand_all_of(outs, nul, ident, all_of) ==
    AllOfFinish(outs, nul, ident,
                AllOfLoop(all_of, 1, [status |-> "ok", fields |-> <<>>, err |-> NoError]))

\* the Field of expand_object before quoting
Field(name, type, nul, serializer, attrs) ==
    [name |-> name, type |-> type, nullable |-> nul, serializer |-> serializer,
     attrs |-> attrs]

\* line 320-321
IsTimestamp(description) == description # None /\ Contains(description[1], Timestamp)

\* the minimum looked at before the timestamp wording
InlineFieldType_minimum_first(item, is_timestamp) ==
    CASE item.kind = "string" /\ item.enumeration = <<>> -> Some(TyString)
      [] item.kind = "number" -> Some(TyF64)
      [] item.kind = "integer" ->
            Some(IF item.minimum # None /\ item.minimum[1] > 0 THEN TyU64
                 ELSE IF is_timestamp THEN TyDateTime
                 ELSE TyI64)
      [] item.kind = "boolean" -> Some(TyBool)
      [] OTHER -> None

\* lines 323-338: the field type of an inline property (None: the property is dropped)
InlineFieldType(item, is_timestamp) ==
    CASE item.kind = "string" /\ item.enumeration = <<>> -> Some(TyString)
      [] item.kind = "number" -> Some(TyF64)
      [] item.kind = "integer" ->
            Some(IF is_timestamp THEN TyDateTime
                 ELSE IF item.minimum # None /\ item.minimum[1] > 0 THEN TyU64
                 ELSE TyI64)
      [] item.kind = "boolean" -> Some(TyBool)
      [] OTHER -> None

\* lines 340-346
InlineSerializer(item, is_timestamp) ==
    IF is_timestamp /\ item.kind = "integer" THEN Some(TimestampSeconds) ELSE None

\* lines 350-358
PushInline(acc, field_name, item, field_type, serializer) ==
    IF field_type = None THEN acc
    ELSE [acc EXCEPT !.fields =
             Append(@, Field(field_name, field_type[1], item.data.nullable, serializer,
                             build_schema_doc(item)))]

InlineProp(acc, field_name, item, is_timestamp) ==
    PushInline(acc, field_name, item, InlineFieldType(item, is_timestamp),
               InlineSerializer(item, is_timestamp))

\* lines 310-316
RefProp(acc, field_name, pr) ==
    IF ~pr.ok THEN [acc EXCEPT !.status = "err", !.err = pr.err]
    ELSE [acc EXCEPT !.fields = Append(@, Field(field_name, pr.name, FALSE, None, <<>>))]

\* one iteration of the first loop of expand_object
PropsStep(field_name, prop, acc) ==
    IF prop.isRef THEN RefProp(acc, field_name, parse_reference(prop.reference))
    ELSE InlineProp(acc, field_name, prop.schema, IsTimestamp(prop.schema.data.description))

RECURSIVE PropsLoop(_, _, _)
PropsLoop(properties, i, acc) ==
    IF i > Len(properties) \/ acc.status # "ok" THEN acc
    ELSE PropsLoop(properties, i + 1, PropsStep(properties[i][1], properties[i][2], acc))

PrimitiveTypes == {TyBool, TyString, TyF64, TyU64, TyI64, TyDateTime}
OptionOf(s) == <<"O","p","t","i","o","n","<">> \o s \o <<">">>

\* lines 379-385 and 392-397: the codec attribute of a field
SerializerAttr(serializer, nul) ==
    IF serializer = None THEN <<>>
    ELSE <<WithAttr(IF nul THEN OptionOf(serializer[1]) ELSE serializer[1])>>

\* lines 387-402: identifier, type and attributes of one field
QuoteField(acc, field, field_name) ==
    IF field_name.panic THEN [acc EXCEPT !.status = "panic"]
    ELSE IF ~(field.type \in PrimitiveTypes \/ ParsesAsType(field.type))
    THEN [acc EXCEPT !.status = "err", !.err = SynError]
    ELSE [acc EXCEPT !.fields =
             Append(@, FieldDef(field.attrs \o SerializerAttr(field.serializer, field.nullable),
                                field_name.ident, TypeOf(field.nullable, field.type)))]

QuoteStep(field, acc) == QuoteField(acc, field, format_field_name(field.name))

\* the second loop of expand_object (map .. collect::<Result<Vec<_>, _>>()?)
RECURSIVE QuoteLoop(_, _, _)
QuoteLoop(fields, i, acc) ==
    IF i > Len(fields) \/ acc.status # "ok" THEN acc
    ELSE QuoteLoop(fields, i + 1, QuoteStep(fields[i], acc))

\* the required list left out of account: a field is nullable only when declared so
FinalNullable_declared(fields, required) == fields

\* lines 365-368: nullable = declared nullable or not required
FinalNullable(fields, required) ==
    [i \in DOMAIN fields |->
        [fields[i] EXCEPT !.nullable =
            @ \/ ~(\E k \in DOMAIN required : required[k] = fields[i].name)]]

ObjectFinish(outs, nul, ident, struct_attrs, q) ==
    IF q.status # "ok" THEN Res(q.status, outs, nul, q.err)
    ELSE Res("ok", Append(outs, StructDef(struct_attrs, ident, q.fields)), nul, NoError)

ObjectQuote(outs, nul, object, ident, struct_attrs, l) ==
    IF l.status # "ok" THEN Res(l.status, outs, nul, l.err)
    ELSE ObjectFinish(outs, nul, ident, struct_attrs,
                      QuoteLoop(FinalNullable(l.fields, object.required), 1,
                                [status |-> "ok", fields |-> <<>>, err |-> NoError]))

expand_object(outs, nul, object, ident, struct_attrs) ==
    ObjectQuote(outs, nul, object, ident, struct_attrs,
                PropsLoop(object.properties, 1,
                          [status |-> "ok", fields |-> <<>>, err |-> NoError]))

RECURSIVE expand_schema(_, _, _, _)

\* lines 169-171 and 182-185: a reference item
ArrayOfRef(outs, nul, ident, doc, pr) ==
    IF ~pr.ok THEN Res("err", outs, nul, pr.err)
    ELSE IF ~IsIdent(pr.name) THEN Res("panic", outs, nul, NoError)
    ELSE Res("ok", Append(outs, AliasDef(doc, ident, TRUE, pr.name)), nul, NoError)

\* lines 178-185: after the item schema was expanded with result r
ArrayOfItem(ident, doc, r) ==
    IF r.status # "ok" THEN r
    ELSE Res("ok", Append(r.outputs, AliasDef(doc, ident, TRUE, ident \o ItemSuffix)),
             r.nullable, NoError)

ArrayItems(outs, nul, ident, doc, items) ==
    IF items.isRef THEN ArrayOfRef(outs, nul, ident, doc, parse_reference(items.reference))
    ELSE ArrayOfItem(ident, doc, expand_schema(outs, nul, ident \o ItemSuffix, items.schema))

expand_array(outs, nul, ident, doc, array) ==
    IF array.items = None THEN Res("ok", outs, nul, NoError)
    ELSE ArrayItems(outs, nul, ident, doc, array.items[1])

\* the match of expand_schema (lines 92-123)
ExpandKind(outs, nul, schema_name, schema, ident, doc) ==
    CASE schema.kind = "string" -> expand_string(outs, nul, ident, doc, schema)
      [] schema.kind = "object" -> expand_object(outs, nul, schema, ident, doc)
      [] schema.kind = "array" -> expand_array(outs, nul, ident, doc, schema)
      [] schema.kind = "boolean" ->
            Res("ok", Append(outs, AliasDef(doc, ident, FALSE, TyBool)), nul, NoError)
      [] schema.kind \in {"anyOf", "any"} ->
            IF schema.any_of = <<>> /\ schema.kind = "any" THEN Res("ok", outs, nul, NoError)
            ELSE expand_any_of(outs, nul, schema_name, doc, schema.any_of)
      [] schema.kind = "allOf" -> expand_all_of(outs, nul, ident, schema.all_of)
      [] OTHER -> Res("ok", outs, nul, NoError)

\* line 88: format_ident! on the formatted schema name
ExpandNamed(outs, nul, schema_name, schema, ident) ==
    IF ~IsIdent(ident) THEN Res("panic", outs, nul, NoError)
    ELSE ExpandKind(outs, nul, schema_name, schema, ident, build_schema_doc(schema))

expand_schema(outs, nul, schema_name, schema) ==
    ExpandNamed(outs, nul, schema_name, schema, format_struct_name(schema_name))

(***************************************************************************)
(* Bounds and the documents explored                                        *)
(***************************************************************************)
MaxEnum == 2        \* entries of a top-level enumeration
MaxBranches == 2    \* branches of an anyOf / allOf list
MaxProps == 2       \* properties of an object
MaxSegs == 4        \* `/`-separated segments of a reference string (naming specification)
MaxName == 4        \* characters of an enum constant (naming specification)

SeqsUpTo(S, n) == UNION { [1..k -> S] : k \in 0..n }

NameA == <<"A">>
NameB == <<"B">>
NameP == <<"P">>
NameQ == <<"Q">>
NameAItem == NameA \o ItemSuffix
NameHyphen == <<"A","-","B">>
NameUnderscore == <<"A","_","B">>

RefTo(name) == SchemasPrefix \o <<"/">> \o name
OtherPrefixRef == <<"#","/","d","e","f","s","/","A">>
NoSlashRef == <<"A">>
BadRefs == {OtherPrefixRef, NoSlashRef}

ConstDot == <<"a",".","b">>
ConstHyphen == <<"a","-","b">>
ConstDigit == <<"1">>
ConstSlash == <<"a","/","b">>
ConstPool == {ConstDot, ConstHyphen, ConstDigit, ConstSlash}
EntryPool == {None} \cup { Some(c) : c \in ConstPool }

Described == [title |-> None, description |-> Some(<<"d">>), nullable |-> FALSE]
NullSchema == AnySchema(NoData, Some(<<"n","u","l","l">>), <<>>)
PropX == <<"x">>
PropDot == <<"a",".","b">>
PropType == <<"t","y","p","e">>
PropNames == <<PropX, PropDot, PropType, <<"y">>, <<"z">>>>

\* an inline object whose only property is a malformed reference
NestedBadRef == ObjectSchema(NoData, <<<<PropX, Ref(OtherPrefixRef)>>>>, <<>>)

BranchPool ==
    { Item(StringSchema(Described, <<Some(ConstDot)>>)),
      Item(StringSchema(NoData, <<Some(ConstHyphen), None>>)),
      Item(StringSchema(NoData, <<>>)),
      Item(NullSchema),
      Item(NestedBadRef),
      Ref(RefTo(NameA)), Ref(RefTo(NameB)),
      Ref(OtherPrefixRef), Ref(NoSlashRef) }

PropPool ==
    { Ref(RefTo(NameA)), Ref(OtherPrefixRef),
      Item(StringSchema(NoData, <<>>)),
      Item(StringSchema(NoData, <<Some(ConstDot)>>)),
      Item(IntegerSchema(NoData, None)),
      Item(NumberSchema(Described)),
      Item(BooleanSchema([NoData EXCEPT !.nullable = TRUE])),
      Item(NestedBadRef) }

LeafItems ==
    { StringSchema(NoData, <<Some(ConstDot)>>), StringSchema(NoData, <<>>),
      NumberSchema(NoData), IntegerSchema(NoData, None), BooleanSchema(NoData),
      ObjectSchema(NoData, <<<<PropX, Item(IntegerSchema(NoData, None))>>>>, <<PropX>>),
      NestedBadRef,
      AnyOfSchema(NoData, <<Item(NullSchema), Ref(RefTo(NameB))>>),
      AllOfSchema(NoData, <<Ref(RefTo(NameB))>>),
      AnySchema(NoData, None, <<>>), OneOfSchema(NoData),
      ArraySchema(NoData, None) }

ItemsPool ==
    {None} \cup { Some(Ref(r)) : r \in {RefTo(NameB)} \cup BadRefs }
           \cup { Some(Item(s)) : s \in LeafItems }
           \cup { Some(Item(ArraySchema(NoData, Some(Item(s))))) :
                    s \in {BooleanSchema(NoData), NumberSchema(NoData), NestedBadRef} }
           \cup { Some(Item(ArraySchema(NoData, Some(Ref(RefTo(NameB)))))) }

StringSchemas == { StringSchema(NoData, e) : e \in SeqsUpTo(EntryPool, MaxEnum) }
UnionSchemas ==
    { AnyOfSchema(NoData, bs) : bs \in SeqsUpTo(BranchPool, MaxBranches) }
    \cup { AnySchema(Described, None, bs) : bs \in SeqsUpTo(BranchPool, MaxBranches) }
IntersectionSchemas == { AllOfSchema(NoData, bs) : bs \in SeqsUpTo(BranchPool, MaxBranches) }
ObjectSchemas ==
    { ObjectSchema(NoData, [i \in 1..Len(vs) |-> <<PropNames[i], vs[i]>>], req) :
        vs \in SeqsUpTo(PropPool, MaxProps), req \in {<<>>, <<PropX, PropDot, PropType>>} }
ArraySchemas == { ArraySchema(Described, items) : items \in ItemsPool }

\* integer and number properties of every classification, one per object
TimestampData ==
    [title |-> None,
     description |-> Some(<<"U","n","i","x"," ","t","i","m","e","s","t","a","m","p","s">>),
     nullable |-> FALSE]
CapitalData ==
    [title |-> Some(Timestamp), description |-> Some(<<"T","i","m","e","s","t","a","m","p">>),
     nullable |-> FALSE]
IntegerPool ==
    { IntegerSchema(d, m) :
        d \in {NoData, TimestampData, [TimestampData EXCEPT !.nullable = TRUE], CapitalData},
        m \in {None, Some(-1), Some(0), Some(1)} }
    \cup { NumberSchema(TimestampData), BooleanSchema(TimestampData),
           StringSchema(TimestampData, <<>>) }
IntegerObjects ==
    { ObjectSchema(NoData, <<<<PropX, Item(p)>>>>, req) :
        p \in IntegerPool, req \in {<<>>, <<PropX>>} }

\* one schema of every kind whose only member is a reference to the name `A-B`
HyphenSchemas ==
    { ObjectSchema(NoData, <<<<PropX, Ref(RefTo(NameHyphen))>>>>, <<PropX>>),
      ArraySchema(NoData, Some(Ref(RefTo(NameHyphen)))),
      AnyOfSchema(NoData, <<Ref(RefTo(NameHyphen))>>),
      AllOfSchema(NoData, <<Ref(RefTo(NameHyphen))>>) }

RichPool ==
    StringSchemas \cup UnionSchemas \cup IntersectionSchemas \cup ObjectSchemas
    \cup ArraySchemas \cup {NumberSchema(NoData)} \cup IntegerObjects
    \cup HyphenSchemas

\* the entries around the schema of interest
BeforePool ==
    { <<>>,
      <<<<NameP, Item(BooleanSchema(Described))>>>>,
      <<<<NameP, Ref(OtherPrefixRef)>>>>,
      <<<<NameP, Item(ArraySchema(NoData, Some(Ref(NoSlashRef))))>>>> }
AfterPool ==
    { <<>>,
      <<<<NameB, Item(BooleanSchema(NoData))>>>>,
      <<<<NameB, Ref(NoSlashRef)>>>>,
      <<<<NameB, Item(AllOfSchema(NoData, <<Ref(OtherPrefixRef)>>))>>>>,
      <<<<NameAItem, Item(BooleanSchema(NoData))>>>>,
      <<<<NameHyphen, Item(BooleanSchema(NoData))>>,
        <<NameUnderscore, Item(BooleanSchema(NoData))>>>> }

Documents ==
    { pre \o <<<<NameA, Item(s)>>>> \o post :
        pre \in BeforePool, s \in RichPool, post \in AfterPool }

Invocation(lit, env, readable, parses, components) ==
    [lit |-> lit, env |-> env, readable |-> readable, parses |-> parses,
     components |-> components]

Inputs ==
    { Invocation("str", TRUE, TRUE, TRUE, Some(d)) : d \in Documents }
    \cup { Invocation("str", TRUE, TRUE, TRUE, None),
           Invocation("int", TRUE, TRUE, TRUE, None),
           Invocation("str", FALSE, TRUE, TRUE, None),
           Invocation("str", TRUE, FALSE, TRUE, None),
           Invocation("str", TRUE, TRUE, FALSE, None) }

(***************************************************************************)
(* generate / try_generate                                                  *)
(***************************************************************************)
NoResult == [kind |-> "none", defs |-> <<>>, err |-> NoError]
Tokens(defs) == [kind |-> "tokens", defs |-> defs, err |-> NoError]
CompileError(err) == [kind |-> "compile_error", defs |-> <<>>, err |-> err]
Panicked == [kind |-> "panic", defs |-> <<>>, err |-> NoError]
EarlyError(kind) == [kind |-> kind, reference |-> <<>>]

schemas == IF IsSome(input.components) THEN Unwrap(input.components) ELSE <<>>

\* no send in progress and no stream open
NoExchange == [kind |-> "none"]
NoOutcome == [kind |-> "none"]
NoPoll == [kind |-> "none"]
SdkIdle ==
    /\ exchange = NoExchange
    /\ tpc = "idle"
    /\ outcome = NoOutcome
    /\ inner = <<>>
    /\ answer = "none"
    /\ yielded = <<>>
    /\ poll = NoPoll

Init ==
    /\ input \in Inputs
    /\ pc = "start"
    /\ idx = 0
    /\ outputs = <<>>
    /\ nullable = {}
    /\ result = NoResult
    /\ previous = None
    /\ fnName = "idle"
    /\ fnIn = <<>>
    /\ fnOut = <<>>
    /\ SdkIdle

\* the accumulators taken over from the pass before instead of created empty
Load_keep ==
    /\ pc = "start"
    /\ input.lit = "str" /\ input.env /\ input.readable /\ input.parses
    /\ pc' = "loop"
    /\ idx' = 0
    /\ UNCHANGED <<input, outputs, nullable, result, previous, fnVars, sdkVars>>

\* lines 46-59 succeed: `outputs` and `nullable` are created empty
Load ==
    /\ pc = "start"
    /\ input.lit = "str" /\ input.env /\ input.readable /\ input.parses
    /\ pc' = "loop"
    /\ idx' = 0
    /\ outputs' = <<>>
    /\ nullable' = {}
    /\ UNCHANGED <<input, result, previous, fnVars, sdkVars>>

\* lines 46-59 fail: the first failing step decides the error
LoadFail ==
    /\ pc = "start"
    /\ ~(input.lit = "str" /\ input.env /\ input.readable /\ input.parses)
    /\ pc' = "done"
    /\ result' = CompileError(
            IF input.lit # "str" THEN EarlyError("ExpectedStringLiteral")
            ELSE IF ~input.env THEN EarlyError("Var")
            ELSE IF ~input.readable THEN EarlyError("ReadFile")
            ELSE EarlyError("DeserializeOpenAPI"))
    /\ UNCHANGED <<input, idx, outputs, nullable, previous, fnVars, sdkVars>>

\* lines 66-68: an entry of the schema map that is a reference is passed over
SkipReference ==
    /\ pc = "loop"
    /\ idx < Len(schemas)
    /\ schemas[idx + 1][2].isRef
    /\ idx' = idx + 1
    /\ UNCHANGED <<input, pc, outputs, nullable, result, previous, fnVars, sdkVars>>

Expansion == expand_schema(outputs, nullable, schemas[idx + 1][1], schemas[idx + 1][2].schema)

\* the accumulators after a successful expansion r
Expanded(r) ==
    /\ r.status = "ok"
    /\ outputs' = r.outputs
    /\ nullable' = r.nullable

\* line 70, expand_schema returns Ok(())
ExpandEntry ==
    /\ pc = "loop"
    /\ idx < Len(schemas)
    /\ ~schemas[idx + 1][2].isRef
    /\ Expanded(Expansion)
    /\ idx' = idx + 1
    /\ UNCHANGED <<input, pc, result, previous, fnVars, sdkVars>>

\* the definitions accumulated before the failure handed out as the output
Failure_partial(r) == Tokens(r.outputs)

\* what generate returns for a failed try_generate (lines 18-23)
Failure(r) == IF r.status = "panic" THEN Panicked ELSE CompileError(r.err)

\* the accumulators and the macro's result after a failed expansion r
Failed(r) ==
    /\ r.status # "ok"
    /\ outputs' = r.outputs
    /\ nullable' = r.nullable
    /\ result' = Failure(r)

\* line 70, expand_schema returns Err (propagated by `?`) or panics
ExpandEntryFail ==
    /\ pc = "loop"
    /\ idx < Len(schemas)
    /\ ~schemas[idx + 1][2].isRef
    /\ Failed(Expansion)
    /\ pc' = "done"
    /\ UNCHANGED <<input, idx, previous, fnVars, sdkVars>>

\* lines 74-78 and 19: the accumulated definitions become the macro's output
Finish ==
    /\ pc = "loop"
    /\ idx = Len(schemas)
    /\ pc' = "done"
    /\ result' = Tokens(outputs)
    /\ UNCHANGED <<input, idx, outputs, nullable, previous, fnVars, sdkVars>>

\* the macro is invoked again on the unchanged document (a rebuild)
Regenerate ==
    /\ pc = "done"
    /\ previous = None
    /\ previous' = Some(result)
    /\ pc' = "start"
    /\ result' = NoResult
    /\ UNCHANGED <<input, idx, outputs, nullable, fnVars, sdkVars>>

Next ==
    \/ Load
    \/ LoadFail
    \/ SkipReference
    \/ ExpandEntry
    \/ ExpandEntryFail
    \/ Finish
    \/ Regenerate

Spec == Init /\ [][Next]_vars

(***************************************************************************)
(* Naming specification: the pure functions applied to bounded inputs       *)
(***************************************************************************)
Components == <<"c","o","m","p","o","n","e","n","t","s">>
Schemas == <<"s","c","h","e","m","a","s">>
RefSegs == { <<"#">>, Components, Schemas, <<>>, NameA }
RefStrings == { Join(segs, <<"/">>) : segs \in SeqsUpTo(RefSegs, MaxSegs) }

ApiKeyCreated == <<"a","p","i","_","k","e","y",".","c","r","e","a","t","e","d">>
ApiKeyUpdated == <<"a","p","i","_","k","e","y",".","u","p","d","a","t","e","d">>
NameAlphabet == {"a", "B", "1", ".", "-", "_"}
VariantStrings == SeqsUpTo(NameAlphabet, MaxName) \cup {ApiKeyCreated, ApiKeyUpdated}

NamingInit ==
    /\ input = Invocation("str", TRUE, TRUE, TRUE, None)
    /\ pc = "idle"
    /\ idx = 0
    /\ outputs = <<>>
    /\ nullable = {}
    /\ result = NoResult
    /\ previous = None
    /\ fnName = "idle"
    /\ fnIn = <<>>
    /\ fnOut = <<>>
    /\ SdkIdle

\* one application per behaviour: the functions keep no state between calls
ParseReference ==
    \E r \in RefStrings :
        /\ fnName = "idle"
        /\ fnName' = "parse_reference"
        /\ fnIn' = r
        /\ fnOut' = parse_reference(r)
        /\ UNCHANGED <<passVars, sdkVars>>

FormatVariantName ==
    \E c \in VariantStrings :
        /\ fnName = "idle"
        /\ fnName' = "format_variant_name"
        /\ fnIn' = c
        /\ fnOut' = format_variant_name(c)
        /\ UNCHANGED <<passVars, sdkVars>>

NamingNext ==
    \/ ParseReference
    \/ FormatVariantName

NamingSpec == NamingInit /\ [][NamingNext]_vars

(***************************************************************************)
(* serde_json::from_str, for a target type of unsigned integers: optional   *)
(* whitespace around one JSON number without sign, fraction or exponent     *)
(***************************************************************************)
MaxText == 2        \* characters of a response body or of an event's data

IsSpace(c) == c = " "

RECURSIVE TrimStart(_)
TrimStart(text) ==
    IF text # <<>> /\ IsSpace(Head(text)) THEN TrimStart(Tail(text)) ELSE text

RECURSIVE TrimEnd(_)
TrimEnd(text) ==
    IF text # <<>> /\ IsSpace(text[Len(text)])
    THEN TrimEnd(SubSeq(text, 1, Len(text) - 1))
    ELSE text

IsJsonNumber(digits) ==
    /\ digits # <<>>
    /\ \A i \in DOMAIN digits : digits[i] \in Digits
    /\ Len(digits) > 1 => digits[1] # "0"

RECURSIVE DecimalValue(_)
DecimalValue(digits) ==
    IF digits = <<>> THEN 0
    ELSE 10 * DecimalValue(SubSeq(digits, 1, Len(digits) - 1))
         + (IndexIn(DigitSeq, digits[Len(digits)]) - 1)

Parsed(digits) ==
    IF IsJsonNumber(digits) THEN [ok |-> TRUE, value |-> DecimalValue(digits)]
    ELSE [ok |-> FALSE, value |-> 0]

from_str(text) == Parsed(TrimEnd(TrimStart(text)))

TextAlphabet == {"0", "1", "x", " "}
Texts == SeqsUpTo(TextAlphabet, MaxText)

(***************************************************************************)
(* StandardHttpTransport::send (src/openai-sdk/src/transport/mod.rs)        *)
(***************************************************************************)
Methods == {"GET", "POST", "PUT"}
Statuses == {100, 199, 200, 204, 299, 300, 404, 500}

\* the request of one send and what the network makes of it
Exchanges ==
    [kind : {"exchange"}, joins : BOOLEAN, method : Methods, params : BOOLEAN,
     sends : BOOLEAN, status : Statuses, reads : BOOLEAN, text : Texts]

\* Result<R, OpenAIError>, or the panic of unimplemented!
SendOk(value) == [kind |-> "Ok", status |-> 0, text |-> <<>>, value |-> value]
SendErr(kind, status, text) == [kind |-> kind, status |-> status, text |-> text, value |-> 0]
UrlParse == SendErr("UrlParse", 0, <<>>)
Reqwest == SendErr("Reqwest", 0, <<>>)
Unimplemented == SendErr("panic", 0, <<>>)
DeserializeResponse(text) == SendErr("DeserializeResponse", 0, text)
Api(status, text) == SendErr("Api", status, text)

\* every status below 400 taken for a success
is_success_below_400(status) == status < 400

\* StatusCode::is_success
is_success(status) == 200 <= status /\ status <= 299

\* prepare_request: Ok(builder), the UrlParse error, or the panic
prepare_request(e) ==
    IF ~e.joins THEN UrlParse
    ELSE IF e.params /\ e.method \notin {"GET", "POST"} THEN Unimplemented
    ELSE NoOutcome

\* lines 87-91
Decide(status, text, parsed) ==
    IF is_success(status)
    THEN IF parsed.ok THEN SendOk(parsed.value) ELSE DeserializeResponse(text)
    ELSE Api(status, text)

TransportInit ==
    /\ input = Invocation("str", TRUE, TRUE, TRUE, None)
    /\ pc = "idle"
    /\ idx = 0
    /\ outputs = <<>>
    /\ nullable = {}
    /\ result = NoResult
    /\ previous = None
    /\ fnName = "idle"
    /\ fnIn = <<>>
    /\ fnOut = <<>>
    /\ exchange \in Exchanges
    /\ tpc = "start"
    /\ outcome = NoOutcome
    /\ inner = <<>>
    /\ answer = "none"
    /\ yielded = <<>>
    /\ poll = NoPoll

\* lines 80-82 succeed: the response head has arrived
SendRequest ==
    /\ tpc = "start"
    /\ prepare_request(exchange) = NoOutcome
    /\ exchange.sends
    /\ tpc' = "sent"
    /\ UNCHANGED <<passVars, fnVars, exchange, outcome, streamVars>>

\* lines 80-82 fail: `?` returns the error of prepare_request or of send()
SendRequestFail ==
    /\ tpc = "start"
    /\ ~(prepare_request(exchange) = NoOutcome /\ exchange.sends)
    /\ tpc' = "done"
    /\ outcome' = IF prepare_request(exchange) # NoOutcome THEN prepare_request(exchange)
                  ELSE Reqwest
    /\ UNCHANGED <<passVars, fnVars, exchange, streamVars>>

\* lines 84-91: the body has been read; the status decides the outcome
ReadBody ==
    /\ tpc = "sent"
    /\ exchange.reads
    /\ tpc' = "done"
    /\ outcome' = Decide(exchange.status, exchange.text, from_str(exchange.text))
    /\ UNCHANGED <<passVars, fnVars, exchange, streamVars>>

\* line 85 fails: `?` returns the error of text()
ReadBodyFail ==
    /\ tpc = "sent"
    /\ ~exchange.reads
    /\ tpc' = "done"
    /\ outcome' = Reqwest
    /\ UNCHANGED <<passVars, fnVars, exchange, streamVars>>

TransportNext ==
    \/ SendRequest
    \/ SendRequestFail
    \/ ReadBody
    \/ ReadBodyFail

TransportSpec == TransportInit /\ [][TransportNext]_vars

(***************************************************************************)
(* ParsedEventStream::poll_next (src/src/transport/streaming.rs)            *)
(***************************************************************************)
MaxEvents == 3      \* items the inner event stream delivers before it ends

\* the items of the inner EventStream: Ok(Event) or Err(EventStreamError)
Event(name, data) == [kind |-> "event", name |-> name, data |-> data]
StreamError == [kind |-> "error", name |-> <<>>, data |-> <<>>]
InnerItems ==
    { Event(<<"m">>, <<"7">>), Event(<<"m">>, <<"x">>), Event(<<"d">>, <<"x">>),
      Event(<<"m">>, <<>>), StreamError }

\* Result<T, OpenAIStreamingError>
ItemOk(value) == [kind |-> "Ok", value |-> value, event |-> <<>>]
DeserializeEventData(event) ==
    [kind |-> "DeserializeEventData", value |-> 0, event |-> Some(event)]
EventStreamErr == [kind |-> "EventStream", value |-> 0, event |-> <<>>]

\* Poll<Option<Item>>
Pending == [kind |-> "pending", item |-> <<>>]
ReadySome(item) == [kind |-> "item", item |-> Some(item)]
ReadyNone == [kind |-> "end", item |-> <<>>]

\* the failed event dropped from the error item
Deserialized_without_event(event, parsed) ==
    IF parsed.ok THEN ItemOk(parsed.value) ELSE DeserializeEventData(Event(<<>>, <<>>))

\* line 81: from_str(&event.data).context(DeserializeEventDataSnafu { event })
Deserialized(event, parsed) ==
    IF parsed.ok THEN ItemOk(parsed.value) ELSE DeserializeEventData(event)

\* lines 79-84: the closure mapped over the inner item
MapItem(item) ==
    IF item.kind = "event" THEN Deserialized(item, from_str(item.data))
    ELSE EventStreamErr

StreamInit ==
    /\ input = Invocation("str", TRUE, TRUE, TRUE, None)
    /\ pc = "idle"
    /\ idx = 0
    /\ outputs = <<>>
    /\ nullable = {}
    /\ result = NoResult
    /\ previous = None
    /\ fnName = "idle"
    /\ fnIn = <<>>
    /\ fnOut = <<>>
    /\ exchange = NoExchange
    /\ tpc = "idle"
    /\ outcome = NoOutcome
    /\ inner \in SeqsUpTo(InnerItems, MaxEvents)
    /\ answer = "none"
    /\ yielded = <<>>
    /\ poll = NoPoll

\* poll_next while the inner stream is pending: ready! returns Poll::Pending
PollPending ==
    /\ answer # "end"
    /\ answer' = "pending"
    /\ poll' = Pending
    /\ UNCHANGED <<passVars, fnVars, sendVars, inner, yielded>>

\* poll_next when the inner stream has its next item ready
PollItem ==
    /\ Len(yielded) < Len(inner)
    /\ answer' = "item"
    /\ yielded' = Append(yielded, MapItem(inner[Len(yielded) + 1]))
    /\ poll' = ReadySome(MapItem(inner[Len(yielded) + 1]))
    /\ UNCHANGED <<passVars, fnVars, sendVars, inner>>

\* poll_next when the inner stream has ended: Option::map passes None on
PollEnd ==
    /\ Len(yielded) = Len(inner)
    /\ answer' = "end"
    /\ poll' = ReadyNone
    /\ UNCHANGED <<passVars, fnVars, sendVars, inner, yielded>>

StreamNext ==
    \/ PollPending
    \/ PollItem
    \/ PollEnd

StreamSpec == StreamInit /\ [][StreamNext]_vars

(***************************************************************************)
(* Properties                                                               *)
(***************************************************************************)
Last(seq) == seq[Len(seq)]
IsPrefixOf(p, s) == Len(p) <= Len(s) /\ SubSeq(s, 1, Len(p)) = p

\* the reference string is `#/components/schemas/<Name>` with no `/` in <Name>
HasLocalForm(r) ==
    /\ IsPrefixOf(SchemasPrefix \o <<"/">>, r)
    /\ ~ContainsChar(SubSeq(r, Len(SchemasPrefix) + 2, Len(r)), "/")
LocalName(r) == SubSeq(r, Len(SchemasPrefix) + 2, Len(r))

\* C3: parse_reference returns Ok(Name) exactly for the strings of the form
\* `#/components/schemas/<Name>`, and for every other string the InvalidReference
\* error carrying the original string, with no name resolved.
C3_LocalFormOnly ==
    fnName = "parse_reference" =>
        IF HasLocalForm(fnIn)
        THEN fnOut.ok /\ fnOut.name = LocalName(fnIn) /\ fnOut.err = NoError
        ELSE ~fnOut.ok /\ fnOut.name = <<>> /\ fnOut.err = InvalidReference(fnIn)

\* a string with another prefix was rejected
C3_Witness ==
    /\ fnName = "parse_reference"
    /\ ContainsChar(fnIn, "/")
    /\ IsPrefixOf(<<"#">>, fnIn)
    /\ ~fnOut.ok
    /\ fnOut.err.reference = fnIn

\* the two-level rule of the naming engine, read off in one pass: every piece
\* between separators (`.` or `-`) in capitalized form, the pieces joined by `_`,
\* and `_` in front of a leading digit
TwoLevelRule(value) ==
    DigitPrefixed(Join(PascalAll(Split(Replace(value, "-", "."), ".")), <<"_">>))

ApiKey_Created == <<"A","p","i","K","e","y","_","C","r","e","a","t","e","d">>

\* C10: the variant identifier of a constant is the result of the two-level rule
\* (segments on `.`, sub-segments on `-`, each capitalized, all joined by `_`, `_` in
\* front of a leading digit); `api_key.created` gives `ApiKey_Created`.
C10_TwoLevelRule ==
    fnName = "format_variant_name" =>
        /\ fnOut.ident = TwoLevelRule(fnIn)
        /\ fnOut.ident # <<>> => fnOut.ident[1] \notin Digits
        /\ fnIn = ApiKeyCreated => fnOut.ident = ApiKey_Created

\* a constant with both separators and a leading digit was renamed
C10_Witness ==
    /\ fnName = "format_variant_name"
    /\ ContainsChar(fnIn, ".")
    /\ ContainsChar(fnIn, "-")
    /\ fnIn[1] \in Digits
    /\ fnOut.ident[1] = "_"
    /\ ~fnOut.panic

(***************************************************************************)
(* Properties of a generation pass                                          *)
(***************************************************************************)
\* the step of the loop that expands the item schema at position idx + 1
ExpandsKind(kinds) ==
    /\ pc = "loop"
    /\ idx < Len(schemas)
    /\ ~schemas[idx + 1][2].isRef
    /\ schemas[idx + 1][2].schema.kind \in kinds
    /\ idx' = idx + 1

NextName == schemas[idx + 1][1]
NextSchema == schemas[idx + 1][2].schema

AppendsOne(before, after) ==
    Len(after) = Len(before) + 1 /\ SubSeq(after, 1, Len(before)) = before

\* def is the sum type `name` whose i-th variant is bare and tagged entries[i]
IsEnumOf(def, name, entries) ==
    /\ def.kind = "enum"
    /\ def.ident = format_struct_name(name)
    /\ Len(def.variants) = Len(entries)
    /\ \A i \in DOMAIN entries :
          def.variants[i].rename = entries[i] /\ def.variants[i].payload = None

\* C1: enum expansion of a string schema whose enumeration is the constants c1..cn
\* appends exactly one sum type named after the schema, with exactly n variants in
\* input order, the i-th a bare variant whose wire tag is ci itself.
C1_EnumVariants ==
    [][ (ExpandsKind({"string"}) /\ \A i \in DOMAIN NextSchema.enumeration :
                                        NextSchema.enumeration[i] # None)
        => /\ AppendsOne(outputs, outputs')
           /\ IsEnumOf(Last(outputs'), NextName, NextSchema.enumeration) ]_vars

\* a two-constant enumeration was expanded, and an identifier differs from its tag
C1_Witness ==
    /\ pc = "loop" /\ idx >= 1
    /\ ~schemas[idx][2].isRef
    /\ schemas[idx][2].schema.kind = "string"
    /\ schemas[idx][2].schema.enumeration = <<Some(ConstDot), Some(ConstDigit)>>
    /\ outputs # <<>>
    /\ Len(Last(outputs).variants) = 2
    /\ Last(outputs).variants[1].ident # ConstDot
    /\ Last(outputs).variants[1].rename = Some(ConstDot)

\* what a branch list contributes, stated on the document: per inline string branch
\* its non-null constants as bare tags, per reference branch one payload variant
BranchShapes(b) ==
    IF b.isRef THEN <<[bare |-> FALSE, tag |-> <<>>]>>
    ELSE IF b.schema.kind = "string"
    THEN [i \in DOMAIN SelectSeq(b.schema.enumeration, LAMBDA e : e # None) |->
            [bare |-> TRUE,
             tag |-> SelectSeq(b.schema.enumeration, LAMBDA e : e # None)[i][1]]]
    ELSE <<>>

RECURSIVE UnionShapes(_)
UnionShapes(bs) ==
    IF bs = <<>> THEN <<>> ELSE BranchShapes(Head(bs)) \o UnionShapes(Tail(bs))

ShapeOf(v) ==
    [bare |-> v.payload = None, tag |-> IF v.rename = None THEN <<>> ELSE v.rename[1]]

HasNullBranch(bs) ==
    \E i \in DOMAIN bs :
        /\ ~bs[i].isRef
        /\ bs[i].schema.kind = "any"
        /\ bs[i].schema.typ = Some(<<"n","u","l","l">>)

IsUnionOf(def, name, bs) ==
    /\ def.kind = "enum"
    /\ def.ident = format_struct_name(name)
    /\ [i \in DOMAIN def.variants |-> ShapeOf(def.variants[i])] = UnionShapes(bs)

\* C2: union expansion of a branch list appends exactly one sum type named after the
\* schema whose variants are, in branch order, the constants of every inline
\* string-enum branch as bare tagged variants and one payload variant per reference
\* branch; a null-typed branch gives no variant and puts the schema's name into the
\* nullable registry.
C2_UnionVariants ==
    [][ (ExpandsKind({"anyOf", "any"}) /\ (NextSchema.kind = "any" => NextSchema.any_of # <<>>))
        => /\ AppendsOne(outputs, outputs')
           /\ IsUnionOf(Last(outputs'), NextName, NextSchema.any_of)
           /\ HasNullBranch(NextSchema.any_of) => NextName \in nullable'
           /\ ~HasNullBranch(NextSchema.any_of) => nullable' = nullable ]_vars

\* an enum branch followed by a null branch was expanded: bare variants only
C2_Witness ==
    /\ pc = "loop" /\ idx >= 1
    /\ ~schemas[idx][2].isRef
    /\ schemas[idx][2].schema.kind = "anyOf"
    /\ schemas[idx][2].schema.any_of =
          <<Item(StringSchema(NoData, <<Some(ConstHyphen), None>>)), Item(NullSchema)>>
    /\ Len(Last(outputs).variants) = 1
    /\ Last(outputs).variants[1].rename = Some(ConstHyphen)
    /\ schemas[idx][1] \in nullable

\* the fields an allOf list gives: one per reference branch, in branch order
FlattenedField(reference) ==
    FieldDef(<<FlattenAttr>>, Snake(format_struct_name(LocalName(reference))),
             TypeOf(FALSE, format_struct_name(LocalName(reference))))

IsIntersectionOf(def, name, bs) ==
    /\ def.kind = "struct"
    /\ def.ident = format_struct_name(name)
    /\ def.fields = [i \in DOMAIN SelectSeq(bs, LAMBDA b : b.isRef) |->
                        FlattenedField(SelectSeq(bs, LAMBDA b : b.isRef)[i].reference)]

\* C5: intersection expansion of a branch list appends exactly one product type whose
\* fields are one field per reference branch, in branch order, named the snake-case
\* form of the resolved type name, typed as that type and flattened; inline branches
\* give no field (references A, B give exactly the fields a, b in that order).
C5_IntersectionFields ==
    [][ ExpandsKind({"allOf"})
        => /\ AppendsOne(outputs, outputs')
           /\ IsIntersectionOf(Last(outputs'), NextName, NextSchema.all_of) ]_vars

\* the references A, B were expanded to the fields a, b
C5_Witness ==
    /\ pc = "loop" /\ idx >= 1
    /\ ~schemas[idx][2].isRef
    /\ schemas[idx][2].schema.kind = "allOf"
    /\ schemas[idx][2].schema.all_of = <<Ref(RefTo(NameA)), Ref(RefTo(NameB))>>
    /\ Len(Last(outputs).fields) = 2
    /\ Last(outputs).fields[1].ident = <<"a">>
    /\ Last(outputs).fields[2].ident = <<"b">>

(***************************************************************************)
(* The document as a whole: what it holds at any depth                      *)
(***************************************************************************)
\* the ReferenceOr<Schema> values directly under a schema
Children(s) ==
    CASE s.kind = "object" -> [i \in DOMAIN s.properties |-> s.properties[i][2]]
      [] s.kind = "array" -> s.items
      [] s.kind \in {"anyOf", "any"} -> s.any_of
      [] s.kind = "allOf" -> s.all_of
      [] OTHER -> <<>>

\* every reference string under a document value, at any depth
RECURSIVE RefsOf(_)
RefsOf(ro) ==
    IF ro.isRef THEN {ro.reference}
    ELSE UNION { RefsOf(c) : c \in Range(Children(ro.schema)) }

\* every inline schema under a document value, at any depth, itself included
RECURSIVE Inlines(_)
Inlines(ro) ==
    IF ro.isRef THEN {}
    ELSE {ro.schema} \cup UNION { Inlines(c) : c \in Range(Children(ro.schema)) }

DocRefs == UNION { RefsOf(schemas[k][2]) : k \in DOMAIN schemas }
DocInlines == UNION { Inlines(schemas[k][2]) : k \in DOMAIN schemas }
DocConstants ==
    UNION { { e[1] : e \in Range(s.enumeration) \ {None} } :
              s \in { t \in DocInlines : t.kind = "string" } }
DocPropertyNames ==
    UNION { { s.properties[i][1] : i \in DOMAIN s.properties } :
              s \in { t \in DocInlines : t.kind = "object" } }

Malformed(refs) == { r \in refs : ~HasLocalForm(r) }

\* C4 as stated: a document with a malformed reference at ANY position makes the
\* pass fail with the reference error and emit no definitions.
C4_AnyMalformedReferenceFails ==
    (pc = "done" /\ Malformed(DocRefs) # {})
        => /\ result.kind = "compile_error"
           /\ result.err.kind = "InvalidReference"
           /\ result.defs = <<>>

\* the references directly in a list of branches, properties or items
DirectRefs(ros) == { ro.reference : ro \in { x \in Range(ros) : x.isRef } }

\* the positions the pass resolves when it expands schema s: the properties of an
\* object, the branches of a union or intersection, the item of an array, and
\* through an inline item the positions of the item schema
RECURSIVE ResolvedRefs(_)
ResolvedRefs(s) ==
    CASE s.kind = "object" -> DirectRefs(Children(s))
      [] s.kind = "array" ->
            IF s.items = None THEN {}
            ELSE IF s.items[1].isRef THEN {s.items[1].reference}
            ELSE ResolvedRefs(s.items[1].schema)
      [] s.kind \in {"anyOf", "any", "allOf"} -> DirectRefs(Children(s))
      [] OTHER -> {}

DocResolvedRefs ==
    UNION { IF schemas[k][2].isRef THEN {} ELSE ResolvedRefs(schemas[k][2].schema) :
              k \in DOMAIN schemas }

\* C4 (amended): a malformed reference at a position the pass resolves (a property of
\* an expanded object, a branch of an expanded anyOf/allOf, the item of an expanded
\* array; expanded are the top-level item schemas and, recursively, inline array
\* items) makes the pass fail and emit no definitions, with the reference error
\* unless an identifier-synthesis failure is met first; a reference error always
\* carries a malformed reference of such a position, so a malformed reference
\* anywhere else (a top-level entry that is a reference, a reference inside an
\* inline property or inline branch) never fails the pass.
C4_ResolvedMalformedReferenceFails ==
    pc = "done" =>
        /\ Malformed(DocResolvedRefs) # {}
              => /\ result.kind \in {"compile_error", "panic"}
                 /\ result.defs = <<>>
                 /\ result.kind = "compile_error"
                       => result.err.kind \in {"InvalidReference", "Syn"}
        /\ result.err.kind = "InvalidReference"
              => /\ result.err.reference \in Malformed(DocResolvedRefs)
                 /\ result.kind = "compile_error"
                 /\ result.defs = <<>>

\* the pass failed on a malformed branch reference of the last entry, after an
\* earlier entry had been expanded
C4_Witness ==
    /\ pc = "done"
    /\ result = CompileError(InvalidReference(OtherPrefixRef))
    /\ outputs # <<>>
    /\ idx = Len(schemas) - 1
    /\ OtherPrefixRef \in DirectRefs(Children(schemas[idx + 1][2].schema))

\* the alias `name = Vec<nameItem>` and, before it, a definition named `nameItem`
AliasAfterItem(defs, name) ==
    \E p \in DOMAIN defs :
        /\ defs[p].kind = "alias"
        /\ defs[p].ident = format_struct_name(name)
        /\ defs[p].vec
        /\ defs[p].target = format_struct_name(name) \o ItemSuffix
        /\ \E q \in 1..(p - 1) : defs[q].ident = defs[p].target

\* C6 as stated: for every array schema whose item schema is inline, whatever its
\* kind, the output holds a definition named <Name>Item before the alias
\* `<Name> = Vec<<Name>Item>`.
C6_ItemDefinedBeforeAlias ==
    (pc = "done" /\ result.kind = "tokens")
        => \A k \in DOMAIN schemas :
              ( /\ ~schemas[k][2].isRef
                /\ schemas[k][2].schema.kind = "array"
                /\ schemas[k][2].schema.items # None
                /\ ~schemas[k][2].schema.items[1].isRef )
              => AliasAfterItem(result.defs, schemas[k][1])

\* serde's name of a field: the rename attribute if there is one, else the
\* identifier without the raw prefix
RenameOf(attrs) == SelectSeq(attrs, LAMBDA a : a.attr = "serde_rename")
Unraw(ident) ==
    IF IsPrefixOf(<<"r", "#">>, ident) THEN SubSeq(ident, 3, Len(ident)) ELSE ident
WireName(field) ==
    IF RenameOf(field.attrs) # <<>> THEN RenameOf(field.attrs)[1].value
    ELSE Unraw(field.ident)
IsFlattened(field) == \E i \in DOMAIN field.attrs : field.attrs[i] = FlattenAttr

\* C7 as stated: in every emitted definition the wire tag of a variant built from a
\* constant and of a field built from a property is the original document string.
C7_WireTagsUntransformed ==
    \A p \in DOMAIN outputs :
        /\ outputs[p].kind = "enum"
              => \A v \in Range(outputs[p].variants) :
                    v.payload = None => v.rename # None /\ v.rename[1] \in DocConstants
        /\ outputs[p].kind = "struct"
              => \A f \in Range(outputs[p].fields) :
                    ~IsFlattened(f) => WireName(f) \in DocPropertyNames

\* C8: a pass is all-or-nothing: when the expansion of a schema fails, the pass ends
\* at that step without moving to a later schema, returns that error (or the panic)
\* and hands out no definition, although some were accumulated; a schema is passed
\* over by advancing only when its expansion succeeded; once ended, a pass expands
\* nothing more.
C8_AllOrNothing ==
    [][ /\ (pc = "loop" /\ idx < Len(schemas) /\ ~schemas[idx + 1][2].isRef)
            => IF Expansion.status = "ok"
               THEN pc' = "loop" /\ idx' = idx + 1 /\ result' = NoResult
               ELSE /\ pc' = "done" /\ idx' = idx
                    /\ result'.kind \in {"compile_error", "panic"}
                    /\ result'.defs = <<>>
                    /\ Expansion.status = "err" => result' = CompileError(Expansion.err)
        /\ (pc' = "done" /\ result'.kind = "tokens") => idx' = Len(schemas)
        /\ pc = "done" => idx' = idx /\ outputs' = outputs ]_vars

\* a pass ended by an error after definitions had been accumulated, with a later
\* schema left unexpanded
C8_Witness ==
    /\ pc = "done"
    /\ result.kind = "compile_error"
    /\ result.defs = <<>>
    /\ outputs # <<>>
    /\ idx + 1 < Len(schemas)

\* the names a schema gives definitions to, in the order of the claim: for an array
\* with an inline item the names of the item first, then the array's own; a schema
\* of a kind without expansion gives none
RECURSIVE NamesOf(_, _)
NamesOf(name, s) ==
    CASE s.kind = "array" ->
            IF s.items = None THEN <<>>
            ELSE IF s.items[1].isRef THEN <<format_struct_name(name)>>
            ELSE NamesOf(name \o ItemSuffix, s.items[1].schema)
                 \o <<format_struct_name(name)>>
      [] s.kind \in {"string", "object", "boolean", "anyOf", "allOf"} ->
            <<format_struct_name(name)>>
      [] s.kind = "any" -> IF s.any_of = <<>> THEN <<>> ELSE <<format_struct_name(name)>>
      [] OTHER -> <<>>

RECURSIVE DeclarationOrder(_)
DeclarationOrder(entries) ==
    IF entries = <<>> THEN <<>>
    ELSE (IF Head(entries)[2].isRef THEN <<>>
          ELSE NamesOf(Head(entries)[1], Head(entries)[2].schema))
         \o DeclarationOrder(Tail(entries))

Idents(defs) == [p \in DOMAIN defs |-> defs[p].ident]

GivesField(prop) ==
    \/ prop[2].isRef
    \/ prop[2].schema.kind \in {"number", "integer", "boolean"}
    \/ prop[2].schema.kind = "string" /\ prop[2].schema.enumeration = <<>>
KeptProperties(object) == SelectSeq(object.properties, GivesField)

DeclaredNullable(prop) == IF prop[2].isRef THEN FALSE ELSE prop[2].schema.data.nullable
IsRequired(object, prop) == \E k \in DOMAIN object.required : object.required[k] = prop[1]

\* C11: in object expansion the final nullable flag of every emitted field is (declared
\* nullable of the inline property OR its wire name is absent from the required list);
\* a reference property counts as declared non-nullable, so it is optional exactly when
\* it is not required; the field's type is Option-wrapped exactly when the flag is set.
C11_FinalNullable ==
    [][ ExpandsKind({"object"})
        => /\ AppendsOne(outputs, outputs')
           /\ Len(Last(outputs').fields) = Len(KeptProperties(NextSchema))
           /\ \A i \in DOMAIN KeptProperties(NextSchema) :
                 Last(outputs').fields[i].type.option =
                    (DeclaredNullable(KeptProperties(NextSchema)[i])
                     \/ ~IsRequired(NextSchema, KeptProperties(NextSchema)[i])) ]_vars

\* a required reference property next to a required inline property declared nullable
C11_Witness ==
    /\ pc = "loop" /\ idx >= 1
    /\ ~schemas[idx][2].isRef
    /\ schemas[idx][2].schema.kind = "object"
    /\ schemas[idx][2].schema.required # <<>>
    /\ Len(schemas[idx][2].schema.properties) = 2
    /\ schemas[idx][2].schema.properties[1][2].isRef
    /\ ~schemas[idx][2].schema.properties[2][2].isRef
    /\ schemas[idx][2].schema.properties[2][2].schema.data.nullable
    /\ Len(Last(outputs).fields) = 2
    /\ ~Last(outputs).fields[1].type.option
    /\ Last(outputs).fields[2].type.option

\* the documentation text (the description of the property) holds the substring
\* `timestamp`, in this spelling
HasTimestamp(description) ==
    /\ description # None
    /\ \E k \in 1..Len(description[1]) :
          /\ k + Len(Timestamp) - 1 <= Len(description[1])
          /\ SubSeq(description[1], k, k + Len(Timestamp) - 1) = Timestamp

IsTimestampInteger(prop) ==
    ~prop[2].isRef /\ prop[2].schema.kind = "integer"
    /\ HasTimestamp(prop[2].schema.data.description)

Codecs(field) == SelectSeq(field.attrs, LAMBDA a : a.attr = "serde_with")

\* the type and codec an inline integer property must get
IntegerClassified(prop, field) ==
    IF HasTimestamp(prop[2].schema.data.description)
    THEN /\ field.type.base = TyDateTime
         /\ Codecs(field) =
               <<WithAttr(IF field.type.option THEN OptionOf(TimestampSeconds)
                          ELSE TimestampSeconds)>>
    ELSE IF prop[2].schema.minimum # None /\ prop[2].schema.minimum[1] > 0
    THEN field.type.base = TyU64
    ELSE field.type.base = TyI64

C13_IdentifiersCollisionFree ==
    pc = "done" =>
        \A p \in DOMAIN result.defs :
            \A q \in DOMAIN result.defs :
                p # q => result.defs[p].ident # result.defs[q].ident

\* a pass that handed out two definitions of one name: the synthesized AItem and the
\* declared AItem
C13_Witness ==
    /\ pc = "done"
    /\ result.kind = "tokens"
    /\ \E p \in DOMAIN result.defs :
          /\ p + 2 <= Len(result.defs)
          /\ result.defs[p].ident = NameAItem
          /\ result.defs[p + 1].kind = "alias"
          /\ result.defs[p + 1].target = NameAItem
          /\ result.defs[p + 2].ident = NameAItem

(***************************************************************************)
(* Properties of string schemas                                             *)
(***************************************************************************)
\* the entry at position idx of the schema map was expanded by the last step
JustExpanded(kinds) ==
    /\ pc = "loop" /\ idx >= 1
    /\ ~schemas[idx][2].isRef
    /\ schemas[idx][2].schema.kind \in kinds
LastName == schemas[idx][1]
LastSchema == schemas[idx][2].schema

\* C14 as stated: enum expansion of a string schema does not filter the null entries
\* of its enumeration: every entry, null entries included, is accounted for by a
\* variant of the emitted sum type.
C14_NullEntriesKept ==
    JustExpanded({"string"})
        => /\ outputs # <<>>
           /\ Last(outputs).kind = "enum"
           /\ Len(Last(outputs).variants) = Len(LastSchema.enumeration)

\* an enumeration of a constant and a null entry was expanded to one variant
C14_Witness ==
    /\ JustExpanded({"string"})
    /\ LastSchema.enumeration = <<Some(ConstHyphen), None>>
    /\ Len(Last(outputs).variants) = 1
    /\ Last(outputs).variants[1].rename = Some(ConstHyphen)

IsFreeFormString(ro) ==
    ~ro.isRef /\ ro.schema.kind = "string" /\ ro.schema.enumeration = <<>>

\* the object half of C15: an inline string property without enumeration gives a
\* field of the text type
PropertyIsText ==
    JustExpanded({"object"})
        => \A i \in DOMAIN KeptProperties(LastSchema) :
              IsFreeFormString(KeptProperties(LastSchema)[i][2])
                 => Last(outputs).fields[i].type.base = TyString

\* C15 as stated: a string schema with an empty enumeration is the free-form text
\* primitive wherever it is classified: as an inline object property it gives a field
\* of the text type, and as a top-level named schema it gives no sum type with an
\* empty variant list.
C15_EmptyEnumerationIsText ==
    /\ PropertyIsText
    /\ (JustExpanded({"string"}) /\ LastSchema.enumeration = <<>>)
          => ~\E p \in DOMAIN outputs :
                /\ outputs[p].ident = format_struct_name(LastName)
                /\ outputs[p].kind = "enum"
                /\ outputs[p].variants = <<>>

\* a top-level string schema without enumeration became an enum without variants
C15_Witness ==
    /\ JustExpanded({"string"})
    /\ LastSchema.enumeration = <<>>
    /\ Last(outputs) = EnumDef(<<>>, format_struct_name(LastName), <<>>)

(***************************************************************************)
(* Properties of the reference sites                                        *)
(***************************************************************************)
\* a reference to a schema whose own definition gets a valid identifier
NamesDefinable(ro) ==
    /\ ro.isRef
    /\ HasLocalForm(ro.reference)
    /\ IsIdent(format_struct_name(LocalName(ro.reference)))
    /\ format_struct_name(LocalName(ro.reference)) \notin Keywords

\* a schema with reference sites whose members are all such references
OnlyReferences(s) ==
    /\ s.kind \in {"object", "array", "anyOf", "allOf"}
    /\ Children(s) # <<>>
    /\ \A i \in DOMAIN Children(s) : NamesDefinable(Children(s)[i])

\* the identifier under which expand_schema emits the schema a reference names
DefinitionIdent(ro) == format_struct_name(LocalName(ro.reference))

\* the type names written at the reference sites of an emitted definition
Payloads(variants) == SelectSeq(variants, LAMBDA v : v.payload # None)
Spellings(def) ==
    CASE def.kind = "struct" -> [i \in DOMAIN def.fields |-> def.fields[i].type.base]
      [] def.kind = "enum" ->
            [i \in DOMAIN Payloads(def.variants) |-> Payloads(def.variants)[i].payload[1]]
      [] def.kind = "alias" -> <<def.target>>

\* C16 as stated, on the schemas whose members are all references: the definition
\* emitted for such a schema spells every referenced schema (object field type, array
\* item type, anyOf payload, allOf field type) with the identifier of that schema's own
\* definition, the `-` to `_` transformation applied at the reference site as at the
\* definition site, for names with `-` too.
C16_ReferenceSitesSpelledAlike ==
    [][ (pc = "loop" /\ idx < Len(schemas) /\ ~schemas[idx + 1][2].isRef
         /\ OnlyReferences(NextSchema))
        => /\ idx' = idx + 1
           /\ AppendsOne(outputs, outputs')
           /\ Spellings(Last(outputs')) =
                 [i \in DOMAIN Children(NextSchema) |->
                     DefinitionIdent(Children(NextSchema)[i])] ]_vars

\* the same for the names without `-`, which holds
PlainNamesSpelledAlike ==
    [][ (pc = "loop" /\ idx < Len(schemas) /\ ~schemas[idx + 1][2].isRef
         /\ OnlyReferences(NextSchema)
         /\ \A i \in DOMAIN Children(NextSchema) :
               ~ContainsChar(Children(NextSchema)[i].reference, "-"))
        => /\ idx' = idx + 1
           /\ AppendsOne(outputs, outputs')
           /\ Spellings(Last(outputs')) =
                 [i \in DOMAIN Children(NextSchema) |->
                     DefinitionIdent(Children(NextSchema)[i])] ]_vars

\* the pass ended at an object whose property refers to `A-B`: the raw name was
\* refused as a type
C16_Witness ==
    /\ pc = "done"
    /\ result = CompileError(SynError)
    /\ idx < Len(schemas)
    /\ ~schemas[idx + 1][2].isRef
    /\ schemas[idx + 1][2].schema.kind = "object"
    /\ schemas[idx + 1][2].schema.properties = <<<<PropX, Ref(RefTo(NameHyphen))>>>>

(***************************************************************************)
(* Properties of the transport                                              *)
(***************************************************************************)
\* the exchange was completed: the request went out and the whole body came back
Completed ==
    /\ tpc = "done"
    /\ exchange.joins /\ exchange.sends /\ exchange.reads
    /\ exchange.params => exchange.method \in {"GET", "POST"}

SuccessStatus(status) == status \in 200..299

\* C17: send maps each completed exchange to exactly one outcome decided by the
\* status: a success status (2xx) gives the deserialized body, or DeserializeResponse
\* with the body text when the body does not deserialize; every other status gives
\* Api with that status and the body text, never a result value.
C17_OutcomeByStatus ==
    Completed =>
        IF SuccessStatus(exchange.status)
        THEN IF from_str(exchange.text).ok
             THEN outcome = SendOk(from_str(exchange.text).value)
             ELSE outcome = DeserializeResponse(exchange.text)
        ELSE /\ outcome = Api(exchange.status, exchange.text)
             /\ outcome.kind # "Ok"

\* a 404 whose body would have deserialized came back as the Api error
C17_Witness ==
    /\ Completed
    /\ exchange.status = 404
    /\ exchange.text = <<"1", "0">>
    /\ from_str(exchange.text).ok
    /\ outcome = Api(404, <<"1", "0">>)

(***************************************************************************)
(* Properties of the parsed event stream                                    *)
(***************************************************************************)
\* the item the claim gives for an inner item
ItemFor(item) ==
    IF item.kind = "error" THEN EventStreamErr
    ELSE IF from_str(item.data).ok THEN ItemOk(from_str(item.data).value)
    ELSE DeserializeEventData(item)

\* C18: ParsedEventStream yields exactly one item per item of its inner stream, in the
\* same order: Ok(value) for an event whose data deserializes, the
\* DeserializeEventData error carrying that event otherwise (the stream goes on), the
\* EventStream error for an inner error; it reports pending exactly when the inner
\* stream is pending and ends exactly when the inner stream ends.
C18_OneItemPerEvent ==
    [][ /\ Len(yielded') <= Len(inner')
        /\ yielded' = [i \in 1..Len(yielded') |-> ItemFor(inner'[i])]
        /\ (answer' = "pending") <=> (poll' = Pending)
        /\ (answer' = "end") <=> (poll' = ReadyNone)
        /\ (answer' = "item")
              <=> (Len(yielded') = Len(yielded) + 1 /\ poll' = ReadySome(Last(yielded')))
        /\ answer' # "item" => yielded' = yielded
        /\ answer' = "end" => Len(yielded') = Len(inner') ]_vars

\* a stream that ended after an event that failed to deserialize, an inner error and
\* a good event, all three yielded in that order
C18_Witness ==
    /\ poll = ReadyNone
    /\ inner = <<Event(<<"d">>, <<"x">>), StreamError, Event(<<"m">>, <<"7">>)>>
    /\ yielded = <<DeserializeEventData(Event(<<"d">>, <<"x">>)), EventStreamErr, ItemOk(7)>>

====
